---------------------------- MODULE Spec2Model ----------------------------
(***************************************************************************)
(* Squashfs extended attributes (xattr.c): the entry iterator over one     *)
(* attribute set and the two queries built on it, squashfs_listxattr and   *)
(* squashfs_getxattr.                                                      *)
(*                                                                         *)
(* The metadata stream of the attribute set is a sequence of bytes; the    *)
(* cursor (squashfs_read_metadata) and the allocator (kmalloc) are the     *)
(* environment: a call may be given one fault, an I/O error or a short     *)
(* read on its k-th cursor read, or a failure of its k-th allocation.      *)
(* 32-bit unsigned quantities are pairs of 16-bit halves, so that          *)
(* arithmetic modulo 2^32 is exact.                                        *)
(***************************************************************************)
EXTENDS Integers, Sequences, FiniteSets, TLC

VARIABLES
    disk,         \* bytes of the metadata stream at the attribute set
    set,          \* the entries the image was built from (history)
    corr,         \* how the image was corrupted when built (history)
    xattr_table,  \* msblk->xattr_table: -1 when the image has no table
    pc,           \* position of the one call in flight
    op,           \* "list" | "get" | "none"
    xattr,        \* squashfs_i(inode)->xattr of the call's inode
    cap,          \* what capable(CAP_SYS_ADMIN) answers for the caller
    qname,        \* Get: the name asked for (C string, without its NUL)
    buffer,       \* caller's buffer: NULL or <<bytes>>
    bufoff,       \* List: how far the local `buffer` pointer has advanced
    size,         \* the local `size` (List decrements it)
    size0,        \* the size the caller passed (history)
    written,      \* List: the local `written`
    err,          \* the local `err`
    steperr,      \* result of the last iterator step (history), 2 = no step yet
    m,            \* the iterator, and the counters of reads and allocations
    fault,        \* the fault injected into this call
    ret           \* the value the call returned

vars == <<disk, set, corr, xattr_table, pc, op, xattr, cap, qname, buffer,
          bufoff, size, size0, written, err, steperr, m, fault, ret>>

image == <<disk, set, corr, xattr_table>>

-----------------------------------------------------------------------------
(* Bounds of the model *)

MaxEntries == 2
MaxListSize == 9
MaxGetSize == 2
MaxReadFault == 5
MaxAllocFault == 3

-----------------------------------------------------------------------------
(* errno values, the limits of xattr.c and the layout of the image *)

EIO == 5
ENOMEM == 12
ERANGE == 34
ENODATA == 61

MaxNameLen == 4096
MaxValueLen == 65536
EntrySize == 8
HeaderSize == 4
OffsetMask == 8191
BlockShift == 13
XATTR_TRUSTED_PREFIX_LEN == 8
XATTR_TRUSTED_PREFIX == <<116, 114, 117, 115, 116, 101, 100, 46>>

InvalidLocator == -1
TableBase == 96
XattrLoc == 24593
\* the same block and offset with bit 31 set: 0x80006011 read as an int
HighLoc == (XattrLoc - 2 ^ 30) - 2 ^ 30

Untouched == -1
Uninit == -2
NULL == <<>>
Ptr(b) == <<b>>
Deref(p) == p[1]

-----------------------------------------------------------------------------
(* unsigned 32-bit integers as two 16-bit halves *)

Half == 2 ^ 16

U32FromNat(n) == [hi |-> (n \div Half) % Half, lo |-> n % Half]
U32ToNat(u) == u.hi * Half + u.lo
U32Zero == [hi |-> 0, lo |-> 0]
U32Lt(a, b) == a.hi < b.hi \/ (a.hi = b.hi /\ a.lo < b.lo)

\* a - b modulo 2^32
U32Sub(a, b) ==
    LET borrow == IF a.lo < b.lo THEN 1 ELSE 0
    IN  [hi |-> (a.hi - b.hi - borrow) % Half, lo |-> (a.lo - b.lo) % Half]

le32_to_cpu(b) == [hi |-> b[3] + 256 * b[4], lo |-> b[1] + 256 * b[2]]
cpu_to_le32(u) == <<u.lo % 256, u.lo \div 256, u.hi % 256, u.hi \div 256>>

-----------------------------------------------------------------------------
(* The images: an attribute set as it is laid out on disk (xattr.c, header *)
(* comment: a 32-bit length marker, then the name/value pairs), built from *)
(* a pool of entries and possibly corrupted in one place.                  *)

Pool ==
    { [name |-> <<97>>, value |-> <<1>>],
      [name |-> <<97, 98>>, value |-> <<2, 3>>],
      [name |-> <<>>, value |-> <<>>],
      [name |-> XATTR_TRUSTED_PREFIX, value |-> <<7>>] }

Sets == UNION { [1..n -> Pool] : n \in 0..MaxEntries }

NoCorruption == [kind |-> "none", pos |-> 0]

HeaderKinds == {"hdr0", "hdr3", "hdr_minus1", "hdr_plus4", "hdr_plus8"}
LengthKinds == {"name_big", "value_big", "over"}

Corruptions(s) ==
    {NoCorruption}
        \cup { [kind |-> k, pos |-> 0] : k \in HeaderKinds }
        \cup { [kind |-> k, pos |-> i] : k \in LengthKinds, i \in 1..Len(s) }

RECURSIVE PayloadSize(_)
PayloadSize(s) ==
    IF s = <<>> THEN 0
    ELSE EntrySize + Len(Head(s).name) + Len(Head(s).value) + PayloadSize(Tail(s))

\* the header's total_size: it counts its own 4 bytes
DeclaredTotal(s, c) ==
    LET t == HeaderSize + PayloadSize(s)
    IN  CASE c.kind = "hdr0" -> 0
          [] c.kind = "hdr3" -> 3
          [] c.kind = "hdr_minus1" -> t - 1
          [] c.kind = "hdr_plus4" -> t + 4
          [] c.kind = "hdr_plus8" -> t + 8
          [] OTHER -> t

DeclaredNameLen(s, c, i) ==
    IF c.pos = i /\ c.kind = "name_big" THEN MaxNameLen + 1
    ELSE IF c.pos = i /\ c.kind = "over" THEN MaxNameLen
    ELSE Len(s[i].name)

DeclaredValueLen(s, c, i) ==
    IF c.pos = i /\ c.kind = "value_big" THEN MaxValueLen + 1
    ELSE Len(s[i].value)

RECURSIVE EntryBytes(_, _, _)
EntryBytes(s, c, i) ==
    IF i > Len(s) THEN <<>>
    ELSE cpu_to_le32(U32FromNat(DeclaredNameLen(s, c, i)))
            \o cpu_to_le32(U32FromNat(DeclaredValueLen(s, c, i)))
            \o s[i].name \o s[i].value
            \o EntryBytes(s, c, i + 1)

ImageBytes(s, c) == cpu_to_le32(U32FromNat(DeclaredTotal(s, c))) \o EntryBytes(s, c, 1)

-----------------------------------------------------------------------------
(* The environment of a call: cursor and allocator *)

NoFault == [kind |-> "none", at |-> 0]

Faults ==
    {NoFault}
        \cup { [kind |-> k, at |-> n] : k \in {"io", "short"}, n \in 1..MaxReadFault }
        \cup { [kind |-> "nomem", at |-> n] : n \in 1..MaxAllocFault }

\* struct squashfs_xattr_iterator after memset(iter, 0, sizeof(*iter)),
\* with the counters of cursor reads and allocations of the call
Machine0 ==
    [ iter |-> [ name_len |-> U32Zero, value_len |-> U32Zero,
                 name |-> NULL, value |-> NULL,
                 block |-> 0, offset |-> 0,
                 remaining_bytes |-> U32Zero ],
      seat |-> 0,        \* the offset the cursor was seated at
      home |-> 0,        \* the block where the image holds the set
      nreads |-> 0,      \* cursor reads issued so far
      nallocs |-> 0,     \* allocations requested so far
      rlog |-> <<>>,     \* the length asked of each cursor read
      nshort |-> 0,      \* cursor reads that delivered less than was asked
      live |-> 0,        \* buffers allocated and not yet freed
      nready |-> 0,      \* iterator steps that decoded an entry
      nsteps |-> 0,      \* iterator steps taken
      startret |-> 2 ]   \* what the start returned (2: not started)

\* squashfs_read_metadata(sb, buf, &block, &offset, length): the bytes at the
\* cursor, fewer at the end of the stream; the cursor advances by what was
\* read.  ret < 0 is a failure of the read.
squashfs_read_metadata(dsk, flt, mm, length) ==
    LET k == mm.nreads + 1
        at == mm.iter.offset - mm.seat
        here == IF mm.iter.block = mm.home THEN Len(dsk) ELSE 0
        avail == IF here > at THEN here - at ELSE 0
        full == IF length <= avail THEN length ELSE avail
        got == IF flt.kind = "short" /\ flt.at = k /\ full > 0 THEN full - 1 ELSE full
        logged == [mm EXCEPT !.nreads = k, !.rlog = Append(@, length)]
    IN  IF flt.kind = "io" /\ flt.at = k
        THEN [ret |-> -EIO, data |-> <<>>, m |-> logged]
        ELSE [ret |-> got,
              data |-> SubSeq(dsk, at + 1, at + got),
              m |-> [logged EXCEPT !.iter.offset = @ + got,
                                   !.nshort = IF got < length THEN @ + 1 ELSE @]]

\* kmalloc(n, GFP_KERNEL): NULL on failure, else n bytes not yet written
kmalloc(flt, mm, n) ==
    LET k == mm.nallocs + 1
    IN  IF flt.kind = "nomem" /\ flt.at = k
        THEN [ptr |-> NULL, m |-> [mm EXCEPT !.nallocs = k]]
        ELSE [ptr |-> Ptr([i \in 1..n |-> Uninit]),
              m |-> [mm EXCEPT !.nallocs = k, !.live = @ + 1]]

\* kfree(ptr): kfree(NULL) does nothing
kfree(mm, ptr) == IF ptr = NULL THEN mm ELSE [mm EXCEPT !.live = @ - 1]

\* the first bytes of a buffer overwritten by what a read delivered
Filled(buf, data) ==
    [i \in 1..Len(buf) |-> IF i <= Len(data) THEN data[i] ELSE buf[i]]

-----------------------------------------------------------------------------
(* The entry iterator *)

xattr_iterator_release_buffer(mm) ==
    LET m1 == [kfree(mm, mm.iter.name) EXCEPT !.iter.name = NULL]
    IN  [kfree(m1, m1.iter.value) EXCEPT !.iter.value = NULL]

\* xattr.c lines 198-223: the two buffers, the name, its terminator, the
\* value, and the budget.  total_len = name_len + value_len.
read_next_payload(dsk, flt, mm, total_len) ==
    LET nlen == U32ToNat(mm.iter.name_len)
        vlen == U32ToNat(mm.iter.value_len)
        a1 == kmalloc(flt, mm, nlen + 1)
        m1 == [a1.m EXCEPT !.iter.name = a1.ptr]
        a2 == kmalloc(flt, m1, vlen)
        m2 == [a2.m EXCEPT !.iter.value = a2.ptr]
        r1 == squashfs_read_metadata(dsk, flt, m2, nlen)
        m3 == [r1.m EXCEPT !.iter.name = Ptr(Filled(Deref(@), r1.data))]
        m4 == [m3 EXCEPT !.iter.name = Ptr([Deref(@) EXCEPT ![nlen + 1] = 0])]
        r2 == squashfs_read_metadata(dsk, flt, m4, vlen)
        m5 == [r2.m EXCEPT !.iter.value = Ptr(Filled(Deref(@), r2.data))]
    IN  IF a1.ptr = NULL THEN [ret |-> -ENOMEM, m |-> m1]
        ELSE IF a2.ptr = NULL THEN [ret |-> -ENOMEM, m |-> m2]
        ELSE IF r1.ret < 0 THEN [ret |-> r1.ret, m |-> r1.m]
        ELSE IF r1.ret < nlen THEN [ret |-> -EIO, m |-> m3]
        ELSE IF r2.ret < 0 THEN [ret |-> r2.ret, m |-> r2.m]
        ELSE IF r2.ret < vlen THEN [ret |-> -EIO, m |-> m5]
        ELSE [ret |-> 1,
              m |-> [m5 EXCEPT !.iter.remaining_bytes =
                                    U32Sub(@, U32FromNat(total_len)),
                               !.nready = @ + 1]]

\* the entry decoded without taking its 8-byte header off the budget
read_next_entry_unpaid(dsk, flt, mm, entry) ==
    LET m1 == [mm EXCEPT !.iter.name_len = le32_to_cpu(SubSeq(entry, 1, 4)),
                         !.iter.value_len = le32_to_cpu(SubSeq(entry, 5, 8))]
    IN  IF U32Lt(U32FromNat(MaxNameLen), m1.iter.name_len)
           \/ U32Lt(U32FromNat(MaxValueLen), m1.iter.value_len)
        THEN [ret |-> -EIO, m |-> m1]
        ELSE LET total_len == U32ToNat(m1.iter.name_len) + U32ToNat(m1.iter.value_len)
             IN  IF U32Lt(m1.iter.remaining_bytes, U32FromNat(total_len))
                 THEN [ret |-> -EIO, m |-> m1]
                 ELSE read_next_payload(dsk, flt, m1, total_len)

\* the entry decoded without asking whether the budget covers its payload
read_next_entry_unbudgeted(dsk, flt, mm, entry) ==
    LET m1 == [mm EXCEPT !.iter.remaining_bytes = U32Sub(@, U32FromNat(EntrySize)),
                         !.iter.name_len = le32_to_cpu(SubSeq(entry, 1, 4)),
                         !.iter.value_len = le32_to_cpu(SubSeq(entry, 5, 8))]
    IN  IF U32Lt(U32FromNat(MaxNameLen), m1.iter.name_len)
           \/ U32Lt(U32FromNat(MaxValueLen), m1.iter.value_len)
        THEN [ret |-> -EIO, m |-> m1]
        ELSE read_next_payload(dsk, flt, m1,
                U32ToNat(m1.iter.name_len) + U32ToNat(m1.iter.value_len))

\* xattr.c lines 181-196: the entry header is taken off the budget and its
\* two lengths are checked against their limits and against the budget
read_next_entry(dsk, flt, mm, entry) ==
    LET m1 == [mm EXCEPT !.iter.remaining_bytes = U32Sub(@, U32FromNat(EntrySize)),
                         !.iter.name_len = le32_to_cpu(SubSeq(entry, 1, 4)),
                         !.iter.value_len = le32_to_cpu(SubSeq(entry, 5, 8))]
    IN  IF U32Lt(U32FromNat(MaxNameLen), m1.iter.name_len)
           \/ U32Lt(U32FromNat(MaxValueLen), m1.iter.value_len)
        THEN [ret |-> -EIO, m |-> m1]
        ELSE LET total_len == U32ToNat(m1.iter.name_len) + U32ToNat(m1.iter.value_len)
             IN  IF U32Lt(m1.iter.remaining_bytes, U32FromNat(total_len))
                 THEN [ret |-> -EIO, m |-> m1]
                 ELSE read_next_payload(dsk, flt, m1, total_len)

\* 1: an entry was decoded, 0: none, < 0: error
xattr_iterator_read_next(dsk, flt, mm) ==
    IF mm.iter.remaining_bytes = U32Zero THEN [ret |-> 0, m |-> mm]
    ELSE IF U32Lt(mm.iter.remaining_bytes, U32FromNat(EntrySize))
    THEN [ret |-> -EIO, m |-> mm]
    ELSE LET r == squashfs_read_metadata(dsk, flt, mm, EntrySize)
         IN  IF r.ret < 0 THEN [ret |-> r.ret, m |-> r.m]
             ELSE IF r.ret < EntrySize THEN [ret |-> 0, m |-> r.m]
             ELSE read_next_entry(dsk, flt, r.m, r.data)

\* the upper 19 bits of a 32-bit locator, given as the int that holds it
Displacement(loc) ==
    IF loc < 0 THEN (loc \div (2 ^ BlockShift)) + 2 ^ (32 - BlockShift)
    ELSE loc \div (2 ^ BlockShift)

\* xattr.c lines 247-263: the cursor is seated at the locator's block and
\* offset and the header is read; the budget is total_size - 4 modulo 2^32.
\* `loc` is the int xattr, so loc >> 13 keeps its sign; iter.block is the
\* u64 field given as the integer of least magnitude congruent to it modulo
\* 2^64.  The image holds the set at the block the locator names, and
\* nothing that the cursor can read at another block.
iterator_read_header(dsk, flt, table, loc) ==
    LET seated == [Machine0 EXCEPT
                        !.iter.block = table + (loc \div (2 ^ BlockShift)),
                        !.iter.offset = loc % (OffsetMask + 1),
                        !.seat = loc % (OffsetMask + 1),
                        !.home = table + Displacement(loc)]
        r == squashfs_read_metadata(dsk, flt, seated, HeaderSize)
    IN  IF r.ret < 0 THEN [ret |-> r.ret, m |-> r.m]
        ELSE IF r.ret < HeaderSize THEN [ret |-> -EIO, m |-> r.m]
        ELSE [ret |-> 1,
              m |-> [r.m EXCEPT !.iter.remaining_bytes =
                            U32Sub(le32_to_cpu(r.data), U32FromNat(HeaderSize))]]

\* the start that forgets that an image may have no xattr table
start_ignoring_table(dsk, flt, table, loc) ==
    IF loc = InvalidLocator
    THEN [ret |-> 0, m |-> Machine0]
    ELSE iterator_read_header(dsk, flt, table, loc)

\* 1: the set has a header, 0: the object has no attributes, < 0: error.
\* `loc` is the inode's locator, `table` the image's xattr table.
squashfs_xattr_iterator_start(dsk, flt, table, loc) ==
    IF loc = InvalidLocator \/ table = InvalidLocator
    THEN [ret |-> 0, m |-> Machine0]
    ELSE iterator_read_header(dsk, flt, table, loc)

\* a step that releases the buffers after it has decoded into them
next_releasing_after(dsk, flt, mm) ==
    LET r == xattr_iterator_read_next(dsk, flt, [mm EXCEPT !.nsteps = @ + 1])
    IN  [ret |-> r.ret, m |-> xattr_iterator_release_buffer(r.m)]

\* a step that decodes the next entry over the buffers of the last one
next_keeping_buffers(dsk, flt, mm) ==
    xattr_iterator_read_next(dsk, flt, [mm EXCEPT !.nsteps = @ + 1])

\* lines 266-271: the buffers of the last entry are released first
squashfs_xattr_iterator_next(dsk, flt, mm) ==
    xattr_iterator_read_next(dsk, flt,
        xattr_iterator_release_buffer([mm EXCEPT !.nsteps = @ + 1]))

\* an end that leaves the buffers of the last entry allocated
end_keeping_buffers(mm) == mm

\* lines 273-277
squashfs_xattr_iterator_end(mm) == xattr_iterator_release_buffer(mm)

-----------------------------------------------------------------------------
(* Names *)

\* the byte of a C string at index i (from 1): 0 at and after its end
CharAt(str, i) == IF i <= Len(str) THEN str[i] ELSE 0

\* strncmp(s1, s2, n) from index i on: 0 when the first n bytes agree, or
\* the strings agree up to a common NUL; else the difference of the bytes
RECURSIVE strncmp_from(_, _, _, _)
strncmp_from(s1, s2, n, i) ==
    IF i > n THEN 0
    ELSE IF CharAt(s1, i) # CharAt(s2, i) THEN CharAt(s1, i) - CharAt(s2, i)
    ELSE IF CharAt(s1, i) = 0 THEN 0
    ELSE strncmp_from(s1, s2, n, i + 1)

strncmp(s1, s2, n) == strncmp_from(s1, s2, n, 1)

\* xattr.c lines 279-287; `capable` is what capable(CAP_SYS_ADMIN) answers
filtered(capable, name) ==
    IF capable THEN FALSE
    ELSE strncmp(name, XATTR_TRUSTED_PREFIX, XATTR_TRUSTED_PREFIX_LEN) # 0

\* memcpy(dst + off, src, n)
memcpy(dst, off, src, n) ==
    [i \in 1..Len(dst) |-> IF i > off /\ i <= off + n THEN src[i - off] ELSE dst[i]]

-----------------------------------------------------------------------------
(* The loop bodies of the two queries, for an entry the iterator decoded *)

\* squashfs_listxattr, lines 307-325.  go: the loop continues.
listxattr_body(capable, mm, buf, off, sz, wr, e) ==
    LET nlen == U32ToNat(mm.iter.name_len)
        count == nlen + 1
        same == [go |-> TRUE, buffer |-> buf, bufoff |-> off, size |-> sz,
                 written |-> wr, err |-> e]
    IN  IF filtered(capable, Deref(mm.iter.name)) THEN same
        ELSE IF buf = NULL THEN [same EXCEPT !.written = wr + count]
        ELSE IF sz < count
        THEN [same EXCEPT !.written = wr + count, !.err = -ERANGE, !.go = FALSE]
        ELSE LET copied == memcpy(Deref(buf), off, Deref(mm.iter.name), nlen)
             IN  [same EXCEPT !.written = wr + count,
                              !.buffer = Ptr([copied EXCEPT ![off + nlen + 1] = 0]),
                              !.bufoff = off + count,
                              !.size = sz - count]

\* squashfs_getxattr, lines 354-365.  found: the entry matched `name`.
getxattr_body(name, mm, buf, sz, e) ==
    LET nlen == U32ToNat(mm.iter.name_len)
        vlen == U32ToNat(mm.iter.value_len)
    IN  IF strncmp(name, Deref(mm.iter.name), nlen) # 0
        THEN [found |-> FALSE, buffer |-> buf, err |-> e]
        ELSE IF buf = NULL THEN [found |-> TRUE, buffer |-> buf, err |-> vlen]
        ELSE IF sz < vlen THEN [found |-> TRUE, buffer |-> buf, err |-> -ERANGE]
        ELSE [found |-> TRUE,
              buffer |-> Ptr(memcpy(Deref(buf), 0, Deref(mm.iter.value), vlen)),
              err |-> vlen]

-----------------------------------------------------------------------------
(* The state machine *)

QueryNames ==
    { <<97>>, <<97, 98>>, <<97, 98, 99>>, <<98>>, <<>>, XATTR_TRUSTED_PREFIX }

Locators == {InvalidLocator, XattrLoc, HighLoc}

\* the buffers a caller may pass: none, or `n` bytes it owns
Buffers(maxsize) ==
    {[ptr |-> NULL, size |-> 0]}
        \cup { [ptr |-> Ptr([i \in 1..n |-> Untouched]), size |-> n] : n \in 0..maxsize }

Idle ==
    /\ pc = "idle" /\ op = "none" /\ xattr = InvalidLocator /\ cap = FALSE
    /\ qname = <<>> /\ buffer = NULL /\ bufoff = 0 /\ size = 0 /\ size0 = 0
    /\ written = 0 /\ err = 0 /\ steperr = 2 /\ m = Machine0
    /\ fault = NoFault /\ ret = 0

\* An image with an xattr table holds one attribute set, intact or corrupted
\* in one place; an image without a table holds none.
Init ==
    /\ \/ /\ xattr_table = TableBase
          /\ \E s \in Sets : \E c \in Corruptions(s) :
                set = s /\ corr = c /\ disk = ImageBytes(s, c)
       \/ /\ xattr_table = InvalidLocator
          /\ set = <<>> /\ corr = NoCorruption /\ disk = <<>>
    /\ Idle

\* one anomaly at a time: a cursor or allocator fault is injected only into
\* a call that reads an intact image
FaultAllowed(flt, loc) ==
    flt = NoFault
        \/ (corr = NoCorruption /\ loc # InvalidLocator /\ xattr_table # InvalidLocator)

\* a List that steps the iterator also when the start found no attributes
listxattr_started_lax(r) == IF r < 0 THEN "done" ELSE "next"

\* lines 302-304: if (err <= 0) return err
listxattr_started(r) == IF r <= 0 THEN "done" ELSE "next"

\* squashfs_listxattr, lines 298-304
ListCall(loc, capable, b, flt) ==
    /\ pc = "idle"
    /\ FaultAllowed(flt, loc)
    /\ LET r == squashfs_xattr_iterator_start(disk, flt, xattr_table, loc)
           to == listxattr_started(r.ret)
       IN  /\ m' = [r.m EXCEPT !.startret = r.ret]
           /\ err' = r.ret
           /\ pc' = to
           /\ ret' = IF to = "done" THEN r.ret ELSE ret
    /\ op' = "list" /\ xattr' = loc /\ cap' = capable /\ qname' = <<>>
    /\ buffer' = b.ptr /\ size' = b.size /\ size0' = b.size
    /\ bufoff' = 0 /\ written' = 0 /\ steperr' = 2 /\ fault' = flt
    /\ UNCHANGED image

\* lines 346-351: if (err < 0) return err; if (err == 0) goto notfound
getxattr_started(r) ==
    IF r < 0 THEN "done" ELSE IF r = 0 THEN "notfound" ELSE "next"

\* squashfs_getxattr, lines 343-351
GetCall(loc, capable, name, b, flt) ==
    /\ pc = "idle"
    /\ FaultAllowed(flt, loc)
    /\ LET r == squashfs_xattr_iterator_start(disk, flt, xattr_table, loc)
           to == getxattr_started(r.ret)
       IN  /\ m' = [r.m EXCEPT !.startret = r.ret]
           /\ err' = r.ret
           /\ pc' = to
           /\ ret' = IF to = "done" THEN r.ret ELSE ret
    /\ op' = "get" /\ xattr' = loc /\ cap' = capable /\ qname' = name
    /\ buffer' = b.ptr /\ size' = b.size /\ size0' = b.size
    /\ bufoff' = 0 /\ written' = 0 /\ steperr' = 2 /\ fault' = flt
    /\ UNCHANGED image

\* the loop condition of line 306: (err = squashfs_xattr_iterator_next(&iter)) == 1
ListNext ==
    /\ pc = "next" /\ op = "list"
    /\ LET r == squashfs_xattr_iterator_next(disk, fault, m)
       IN  /\ m' = r.m
           /\ err' = r.ret
           /\ steperr' = r.ret
           /\ pc' = IF r.ret = 1 THEN "body" ELSE "end"
    /\ UNCHANGED <<image, op, xattr, cap, qname, buffer, bufoff, size, size0,
                   written, fault, ret>>

ListBody ==
    /\ pc = "body" /\ op = "list"
    /\ LET r == listxattr_body(cap, m, buffer, bufoff, size, written, err)
       IN  /\ buffer' = r.buffer
           /\ bufoff' = r.bufoff
           /\ size' = r.size
           /\ written' = r.written
           /\ err' = r.err
           /\ pc' = IF r.go THEN "next" ELSE "end"
    /\ UNCHANGED <<image, op, xattr, cap, qname, size0, steperr, m, fault, ret>>

\* a return that lets the bytes already counted hide an error
listxattr_return_count(e, wr) == IF e < 0 /\ wr = 0 THEN e ELSE wr

\* line 330: return err < 0 ? err : written
listxattr_return(e, wr) == IF e < 0 THEN e ELSE wr

\* lines 328-330
ListEnd ==
    /\ pc = "end" /\ op = "list"
    /\ m' = squashfs_xattr_iterator_end(m)
    /\ ret' = listxattr_return(err, written)
    /\ pc' = "done"
    /\ UNCHANGED <<image, op, xattr, cap, qname, buffer, bufoff, size, size0,
                   written, err, steperr, fault>>

\* the loop condition of line 353
GetNext ==
    /\ pc = "next" /\ op = "get"
    /\ LET r == squashfs_xattr_iterator_next(disk, fault, m)
       IN  /\ m' = r.m
           /\ err' = r.ret
           /\ steperr' = r.ret
           /\ pc' = IF r.ret = 1 THEN "body" ELSE "notfound"
    /\ UNCHANGED <<image, op, xattr, cap, qname, buffer, bufoff, size, size0,
                   written, fault, ret>>

GetBody ==
    /\ pc = "body" /\ op = "get"
    /\ LET r == getxattr_body(qname, m, buffer, size, err)
       IN  /\ buffer' = r.buffer
           /\ err' = r.err
           /\ pc' = IF r.found THEN "found" ELSE "next"
    /\ UNCHANGED <<image, op, xattr, cap, qname, bufoff, size, size0, written,
                   steperr, m, fault, ret>>

\* lines 367-372: the labels notfound and found
getxattr_exit(label, e) == IF label = "notfound" THEN -ENODATA ELSE e

GetEnd ==
    /\ pc \in {"notfound", "found"} /\ op = "get"
    /\ err' = getxattr_exit(pc, err)
    /\ m' = squashfs_xattr_iterator_end(m)
    /\ ret' = getxattr_exit(pc, err)
    /\ pc' = "done"
    /\ UNCHANGED <<image, op, xattr, cap, qname, buffer, bufoff, size, size0,
                   written, steperr, fault>>

\* the caller has the result; the next call starts from scratch
Return ==
    /\ pc = "done"
    /\ pc' = "idle" /\ op' = "none" /\ xattr' = InvalidLocator /\ cap' = FALSE
    /\ qname' = <<>> /\ buffer' = NULL /\ bufoff' = 0 /\ size' = 0 /\ size0' = 0
    /\ written' = 0 /\ err' = 0 /\ steperr' = 2 /\ m' = Machine0
    /\ fault' = NoFault /\ ret' = 0
    /\ UNCHANGED image

\* every call the model covers: inode, privilege, name, buffer and fault
AnyListCall ==
    /\ pc = "idle"
    /\ \E loc \in Locators, capable \in BOOLEAN, b \in Buffers(MaxListSize),
          flt \in Faults : ListCall(loc, capable, b, flt)

AnyGetCall ==
    /\ pc = "idle"
    /\ \E loc \in Locators, capable \in BOOLEAN, name \in QueryNames,
          b \in Buffers(MaxGetSize), flt \in Faults :
            GetCall(loc, capable, name, b, flt)

Next ==
    \/ AnyListCall
    \/ AnyGetCall
    \/ ListNext
    \/ ListBody
    \/ ListEnd
    \/ GetNext
    \/ GetBody
    \/ GetEnd
    \/ Return

Spec == Init /\ [][Next]_vars

\* the statements a call in flight can be at
Running == {"next", "body", "end", "notfound", "found"}

\* A call in flight runs on: the kernel thread that entered List or Get
\* executes its next statement, and every cursor read returns.  The steps of
\* Next taken at a statement of Running are those of ListNext, ListBody,
\* ListEnd, GetNext, GetBody and GetEnd, one of which is enabled at each such
\* statement, and each of them moves pc.
Proceed == pc \in Running /\ pc' \in (Running \cup {"done"}) \ {pc}

\* The calls whose length is bounded under fairness: every image, inode,
\* privilege, name and fault, with the caller's buffer absent or of the
\* largest size (a smaller buffer only ends List or Get sooner, by RANGE).
EdgeBuffers(maxsize) == { b \in Buffers(maxsize) : b.ptr = NULL \/ b.size = maxsize }

EdgeListCall ==
    /\ pc = "idle"
    /\ \E loc \in Locators, capable \in BOOLEAN, b \in EdgeBuffers(MaxListSize),
          flt \in Faults : ListCall(loc, capable, b, flt)

EdgeGetCall ==
    /\ pc = "idle"
    /\ \E loc \in Locators, capable \in BOOLEAN, name \in QueryNames,
          b \in EdgeBuffers(MaxGetSize), flt \in Faults :
            GetCall(loc, capable, name, b, flt)

EdgeNext ==
    \/ EdgeListCall
    \/ EdgeGetCall
    \/ ListNext
    \/ ListBody
    \/ ListEnd
    \/ GetNext
    \/ GetBody
    \/ GetEnd
    \/ Return

TermSpec == Init /\ [][EdgeNext]_vars /\ WF_pc(Proceed)

-----------------------------------------------------------------------------
(* What the claims speak of *)

Done == pc = "done"

NoAttributes == xattr = InvalidLocator \/ xattr_table = InvalidLocator

\* the call reads an intact attribute set through a cursor and an allocator
\* that do not fail
WellFormed == ~NoAttributes /\ corr = NoCorruption /\ fault = NoFault

DistinctNames(s) == \A i, j \in 1..Len(s) : s[i].name = s[j].name => i = j

\* the name lies in the privileged namespace "trusted."
IsTrusted(name) ==
    /\ Len(name) >= XATTR_TRUSTED_PREFIX_LEN
    /\ SubSeq(name, 1, XATTR_TRUSTED_PREFIX_LEN) = XATTR_TRUSTED_PREFIX

\* the namespace filter as the specification words it
Hidden(capable, name) == ~capable /\ IsTrusted(name)

\* the name of the entry the iterator holds
DecodedName == SubSeq(Deref(m.iter.name), 1, U32ToNat(m.iter.name_len))

\* the listing the specification asks for: every name that is not hidden,
\* in on-disk order, each followed by one terminator byte
RECURSIVE Listing(_, _)
Listing(capable, s) ==
    IF s = <<>> THEN <<>>
    ELSE (IF Hidden(capable, Head(s).name) THEN <<>> ELSE Head(s).name \o <<0>>)
            \o Listing(capable, Tail(s))

RequiredSize(capable, s) == Len(Listing(capable, s))

BufferUntouched ==
    buffer = NULL \/ \A i \in 1..Len(Deref(buffer)) : Deref(buffer)[i] = Untouched

\* the entries of the set stored under the name
Stored(name) == { i \in 1..Len(set) : set[i].name = name }

-----------------------------------------------------------------------------
(* The claims *)

\* C1: in List, an entry the iterator decoded is skipped (nothing is added to
\* the size, nothing is written) exactly when the caller is not privileged
\* and the name begins with "trusted."; a privileged caller skips nothing.
C1_SkipExactlyTrusted ==
    [][(pc = "body" /\ op = "list")
          => ((written' = written /\ buffer' = buffer)
                <=> Hidden(cap, DecodedName))]_vars

\* C2: Get of a stored "trusted." name by a caller without privilege returns
\* NOT_FOUND and leaves the buffer alone; for a privileged caller the name is
\* reachable (a length, or RANGE when the buffer is too small).
C2_TrustedUnreachable ==
    (Done /\ op = "get" /\ WellFormed /\ IsTrusted(qname) /\ Stored(qname) # {})
        => IF cap
           THEN ret >= 0 \/ ret = -ERANGE
           ELSE ret = -ENODATA /\ BufferUntouched

\* C3: when the last iterator step of a Get ended in an error (no entry had
\* matched, or the loop would have been left), Get returns that error.
C3_GetPropagatesError ==
    (Done /\ op = "get" /\ steperr < 0) => ret = steperr

\* C4: Get of a name that no entry of a well-formed set bears returns
\* NOT_FOUND.
C4_AbsentNameNotFound ==
    (Done /\ op = "get" /\ WellFormed /\ Stored(qname) = {}) => ret = -ENODATA

\* C5: in a well-formed set of pairwise distinct names, Get of the name of an
\* entry the caller may reach returns the entry's value_len when the buffer
\* is absent, and with a buffer of exactly value_len bytes returns value_len
\* and leaves the entry's value in the buffer.
C5_GetReturnsValue ==
    (Done /\ op = "get" /\ WellFormed /\ DistinctNames(set)
          /\ ~Hidden(cap, qname))
        => \A i \in Stored(qname) :
              /\ buffer = NULL => ret = Len(set[i].value)
              /\ (buffer # NULL /\ size0 = Len(set[i].value))
                    => (ret = Len(set[i].value) /\ Deref(buffer) = set[i].value)

\* C6: on a well-formed set, List without a buffer returns S, the sum of
\* name_len + 1 over the entries that are not hidden, and List with a buffer
\* of exactly S bytes returns S and leaves the listing in the buffer.
C6_ListSizeThenFill ==
    (Done /\ op = "list" /\ WellFormed)
        => /\ buffer = NULL => ret = RequiredSize(cap, set)
           /\ (buffer # NULL /\ size0 = RequiredSize(cap, set))
                 => (ret = RequiredSize(cap, set)
                        /\ Deref(buffer) = Listing(cap, set))

\* C7: on a well-formed set, List with a buffer one byte smaller than the
\* required size, and Get of a present name with a buffer one byte smaller
\* than its value, return RANGE.
C7_OneByteShortIsRange ==
    (Done /\ WellFormed /\ buffer # NULL)
        => /\ (op = "list" /\ size0 + 1 = RequiredSize(cap, set))
                 => ret = -ERANGE
           /\ (op = "get" /\ ~Hidden(cap, qname))
                 => \A i \in Stored(qname) :
                       size0 + 1 = Len(set[i].value) => ret = -ERANGE

\* C8: when an entry of the set declares name_len > 4096, value_len > 65536
\* or more bytes than the budget has left, List and Get fail with the format
\* error (which xattr.c reports as -EIO).
C8_BadLengthFails ==
    (Done /\ ~NoAttributes /\ fault = NoFault /\ corr.kind \in LengthKinds)
        => ret = -EIO

\* C9: for an inode without attributes (locator -1) or an image without an
\* xattr table (-1), List returns 0 and Get returns NOT_FOUND, the cursor is
\* never read and the caller's buffer is never written.
C9_NoAttributes ==
    (op # "none" /\ NoAttributes)
        => /\ m.nreads = 0
           /\ BufferUntouched
           /\ Done => ret = (IF op = "list" THEN 0 ELSE -ENODATA)

C9_Witness ==
    /\ Done /\ op = "get" /\ xattr_table = InvalidLocator /\ xattr # InvalidLocator
    /\ buffer # NULL /\ size0 > 0 /\ ret = -ENODATA

\* C10: after a header with total_size < 4 the call fails, and nothing but
\* the header is read from the cursor and no entry is decoded.
C10_SmallHeaderRejected ==
    (op # "none" /\ ~NoAttributes /\ corr.kind \in {"hdr0", "hdr3"})
        => /\ m.nreads <= 1
           /\ m.iter.name = NULL
           /\ Done => ret < 0

\* C11: a cursor read that delivers fewer bytes than asked (of the set
\* header, an entry header, a name or a value) ends the iterator step, or the
\* start, in an error, and the call fails: it is never taken for the end of
\* the set.
C11_ShortReadIsError ==
    (Done /\ m.nshort > 0) => (ret < 0 /\ (steperr = 2 \/ steperr < 0))

\* C12: in List, an iterator step that ends in an error makes the call return
\* that error, whatever was counted or copied before; a call on an object
\* that has attributes returns a byte count only after a step that found the
\* set exhausted.
C12_ListPropagatesError ==
    /\ (Done /\ op = "list" /\ steperr < 0) => ret = steperr
    /\ (Done /\ op = "list" /\ ret >= 0 /\ ~NoAttributes) => steperr = 0

C12_Witness ==
    /\ Done /\ op = "list" /\ steperr < 0 /\ ret = steperr
    /\ written > 0 /\ buffer # NULL /\ ~BufferUntouched

\* C13: for every locator other than the sentinel the iterator is seated at
\* block = table + (the locator's upper 19 bits, in 0..2^19-1), also when bit
\* 31 of the locator is set, and at the offset in its lower 13 bits, in
\* 0..8191.
C13_LocatorDecode ==
    (op # "none" /\ ~NoAttributes) =>
        /\ Displacement(xattr) \in 0..(2 ^ (32 - BlockShift) - 1)
        /\ m.iter.block = xattr_table + Displacement(xattr)
        /\ m.seat \in 0..OffsetMask
        /\ m.seat = xattr - (xattr \div (OffsetMask + 1)) * (OffsetMask + 1)

\* the bytes asked of the cursor by its reads from the i-th on
RECURSIVE AskedFrom(_, _)
AskedFrom(rlog, i) ==
    IF i > Len(rlog) THEN 0 ELSE rlog[i] + AskedFrom(rlog, i + 1)

\* the budget the header declares: total_size - 4
Budget0 == DeclaredTotal(set, corr) - HeaderSize

\* C14: for a header with total_size >= 4, whatever the entry bytes are, the
\* bytes asked of the cursor after the header never exceed total_size - 4,
\* the remaining budget never leaves 0..total_size - 4, and after k steps
\* that decoded an entry it is total_size - 4 less the sum of
\* 8 + name_len + value_len over these k entries (the terminator appended to
\* a name is not counted).
C14_BudgetInvariant ==
    (op # "none" /\ ~NoAttributes /\ DeclaredTotal(set, corr) >= HeaderSize) =>
        /\ AskedFrom(m.rlog, 2) <= Budget0
        /\ m.iter.remaining_bytes.hi = 0
        /\ U32ToNat(m.iter.remaining_bytes) <= Budget0
        /\ (pc = "body") =>
              /\ U32ToNat(m.iter.remaining_bytes)
                    = Budget0 - PayloadSize(SubSeq(set, 1, m.nready))
              /\ AskedFrom(m.rlog, 2) = PayloadSize(SubSeq(set, 1, m.nready))
              /\ U32ToNat(m.iter.name_len) = Len(set[m.nready].name)
              /\ U32ToNat(m.iter.value_len) = Len(set[m.nready].value)
              /\ Len(Deref(m.iter.name)) = Len(set[m.nready].name) + 1

C14_Witness ==
    /\ pc = "body" /\ steperr = 1 /\ m.nready = 2
    /\ m.iter.remaining_bytes = U32Zero
    /\ Budget0 > 2 * EntrySize /\ AskedFrom(m.rlog, 2) = Budget0

\* the buffers the iterator holds: its name and value pointers that are set
Held == (IF m.iter.name # NULL THEN 1 ELSE 0) + (IF m.iter.value # NULL THEN 1 ELSE 0)

\* C15: at any time the buffers allocated and not freed are those the
\* iterator points to, at most one name and one value buffer (the pair of the
\* last entry is freed before the next is decoded), and when List or Get has
\* returned, on whatever path, none is left allocated.
C15_BufferOwnership ==
    /\ m.live = Held
    /\ m.live <= 2
    /\ m.iter.value # NULL => m.iter.name # NULL
    /\ (Done \/ pc = "idle") => (m.live = 0 /\ Held = 0)

\* the value buffer could not be allocated after the name buffer was
C15_Witness ==
    /\ Done /\ op = "list" /\ ret = -ENOMEM
    /\ fault = [kind |-> "nomem", at |-> 2] /\ m.nallocs = 2
    /\ m.live = 0 /\ Held = 0

\* the caller's buffer holds `bytes` at its start and is untouched after them
BufferHolds(bytes) ==
    /\ buffer # NULL /\ Len(bytes) <= Len(Deref(buffer))
    /\ \A i \in 1..Len(Deref(buffer)) :
          Deref(buffer)[i] = IF i <= Len(bytes) THEN bytes[i] ELSE Untouched

\* C16: List without a buffer writes none; List with a buffer writes inside
\* it, at most its capacity in all; Get writes the buffer only for an entry
\* stored under the name asked for whose value fits, then exactly the bytes
\* of the value, and leaves the buffer as it was when it returns an error.
C16_CallerBufferFrame ==
    (op # "none") =>
        /\ buffer = NULL \/ Len(Deref(buffer)) = size0
        /\ (op = "list" /\ buffer # NULL) =>
              /\ bufoff + size = size0 /\ bufoff >= 0 /\ size >= 0
              /\ \A i \in (bufoff + 1)..size0 : Deref(buffer)[i] = Untouched
        /\ (op = "get" /\ ~BufferUntouched) =>
              \E i \in Stored(qname) :
                  /\ BufferHolds(set[i].value)
                  /\ Done => ret = Len(set[i].value)
        /\ (op = "get" /\ Done /\ ret < 0) => BufferUntouched

\* C17 (as claimed): in Get, when the first matching entry has been found, the
\* iterator's name and value buffers are released first, and the result is
\* determined and the value copied only afterwards.
C17_ReleaseThenCopy ==
    (op = "get" /\ pc = "found") => Held = 0

\* C17 (amended): in Get, on the first matching entry the result is
\* determined and the value is copied out of the iterator's value buffer
\* while the iterator still holds the name and value buffers of that entry;
\* they are released afterwards, before Get returns.
C17_CopyThenRelease ==
    /\ (op = "get" /\ pc = "found") =>
          /\ Held = 2 /\ steperr = 1
          /\ err = IF buffer # NULL /\ size0 < U32ToNat(m.iter.value_len)
                   THEN -ERANGE ELSE U32ToNat(m.iter.value_len)
          /\ (buffer # NULL /\ err >= 0) => BufferHolds(Deref(m.iter.value))
          /\ err < 0 => BufferUntouched
    /\ (op = "get" /\ Done) => Held = 0

C17_Witness ==
    /\ op = "get" /\ pc = "found" /\ Held = 2
    /\ err = 2 /\ buffer # NULL /\ BufferHolds(Deref(m.iter.value))

\* a step of the iterator has found the set exhausted or has failed
Terminal == op # "none" /\ steperr <= 0

\* C18: within a call the start is performed once, before any step; a step
\* is taken only after the start announced a header; and once a step has
\* found the set exhausted or has failed, the call takes no further step and
\* issues no further cursor read.
C18_IteratorProtocol ==
    /\ [](/\ (op # "none") <=> (m.startret # 2)
          /\ (m.nsteps = 0) <=> (steperr = 2)
          /\ m.nsteps > 0 => m.startret = 1
          /\ m.startret <= 0 => m.nreads <= 1)
    /\ [][Terminal => (pc' = "idle" \/ (/\ m'.nsteps = m.nsteps
                                        /\ m'.nreads = m.nreads
                                        /\ m'.startret = m.startret
                                        /\ steperr' = steperr))]_vars
    /\ [][(op # "none" /\ op' # "none") => m'.startret = m.startret]_vars

C18_Witness ==
    /\ pc = "end" /\ op = "list" /\ steperr < 0
    /\ m.startret = 1 /\ m.nsteps = 2 /\ m.nreads = 5

\* the budget the iterator starts with, as the 32-bit value of line 261
InitialBudget ==
    U32Sub(U32FromNat(DeclaredTotal(set, corr)), U32FromNat(HeaderSize))

\* InitialBudget / 8
BudgetSteps == InitialBudget.hi * (Half \div EntrySize) + InitialBudget.lo \div EntrySize

\* every step that decodes an entry lowers the remaining budget by at least 8
ReadyStepPaysEight ==
    [][(pc = "next" /\ pc' = "body") =>
            /\ ~U32Lt(m.iter.remaining_bytes, U32FromNat(EntrySize))
            /\ ~U32Lt(U32Sub(m.iter.remaining_bytes, U32FromNat(EntrySize)),
                      m'.iter.remaining_bytes)
            /\ m'.nready = m.nready + 1]_vars

\* C19 (as claimed): every List and Get call returns, whatever the header and
\* the entry bytes are; every step that decodes an entry lowers the remaining
\* budget by at least 8; and the number of steps the call takes is at most
\* budget / 8.
C19_StepsWithinBudget ==
    /\ [](op # "none" => m.nsteps <= BudgetSteps)
    /\ ReadyStepPaysEight
    /\ (op # "none") ~> Done

\* C19 (amended): every List and Get call returns, whatever the header and
\* the entry bytes are (entries with name_len = 0 and value_len = 0
\* included): every step that decodes an entry lowers the remaining budget by
\* at least 8, the steps that decode an entry are at most budget / 8, and the
\* call takes at most one step more, the one that finds the set exhausted or
\* fails: at most budget / 8 + 1 steps in all.
C19_Terminates ==
    /\ [](op # "none" => /\ m.nready <= BudgetSteps
                         /\ m.nsteps <= m.nready + 1
                         /\ m.nsteps <= BudgetSteps + 1)
    /\ ReadyStepPaysEight
    /\ (op # "none") ~> Done

\* two entries with an empty name and an empty value, and a budget of 16
C19_Witness ==
    /\ Done /\ op # "none" /\ corr = NoCorruption /\ fault = NoFault
    /\ Len(set) = 2 /\ PayloadSize(set) = 2 * EntrySize
    /\ m.nready = 2 /\ m.nsteps = 3 /\ BudgetSteps = 2

\* C20: List and Get read the iterator's name and value buffers only in
\* their loop bodies, and there the last step has decoded an entry, both
\* buffers are allocated, and they hold that entry: its name followed by the
\* terminator, and its value.  No body runs on released buffers or after a
\* step that did not decode an entry.
C20_NoUseAfterRelease ==
    /\ (pc = "body") =>
          /\ steperr = 1 /\ err = 1
          /\ Held = 2
          /\ m.nready \in 1..Len(set) /\ m.nready = m.nsteps
          /\ Deref(m.iter.name) = set[m.nready].name \o <<0>>
          /\ Deref(m.iter.value) = set[m.nready].value
    /\ (op # "none" /\ (steperr # 1 \/ Held < 2)) => pc # "body"

C20_Witness ==
    /\ pc = "body" /\ op = "get" /\ m.nready = 2 /\ Held = 2
    /\ set[1] # set[2]
    /\ Deref(m.iter.name) = set[2].name \o <<0>>
    /\ Deref(m.iter.value) = set[2].value /\ set[2].value # <<>>

=============================================================================
